---- MODULE Spec2Model ----
(***************************************************************************)
(* Schematic: a schema (ordered list of typed, offset-addressed fields)    *)
(* laid over a binary buffer, with a multi-selection over the field list.  *)
(* The module models SchematicApp (src/src/app.rs), DataType::read_value   *)
(* (src/src/schema/types.rs) and BinaryData (src/src/binary_data.rs).      *)
(*                                                                         *)
(* Modelling conventions                                                   *)
(*  - Option<T>: None is <<>>, Some(x) is <<x>>.                           *)
(*  - Vec<T> is a sequence; Rust index i is TLA+ index i + 1.              *)
(*  - Text that is parsed (the offset box of the dialogs) is a sequence of *)
(*    one-character strings; text that is only stored is a string.         *)
(*  - The text boxes of the two dialogs are egui widgets that rewrite the  *)
(*    form strings inside the dialog handler; the strings a handler reads  *)
(*    when its button is pressed are inputs of the action.                 *)
(*  - usize is 64 bits wide.  A usize v is written v when v < 2^30 and     *)
(*    v - 2^64 (a negative number) when v >= 2^64 - 2^30, which is the     *)
(*    two's-complement reading of the word; every usize the model draws    *)
(*    lies in one of these two windows.                                    *)
(***************************************************************************)
EXTENDS Integers, Sequences, FiniteSets, TLC

\* ------------------------------------------------------------------ bounds
\* Longest field list of the whole-application specification.
MaxFields == 2
\* Longest field list of the selection specification.
MaxSelFields == 6
\* Longest buffer handed to read_value.
MaxBufLen == 8
\* Longest field list of the file specification.
MaxFileFields == 2
\* Longest field list handed to the hex view.
MaxHexFields == 3
\* Last row of the hex view that is studied.
MaxHexRow == 1

\* ------------------------------------------------------------------ Option
None == <<>>
Some(x) == <<x>>

Min(a, b) == IF a <= b THEN a ELSE b
Max(a, b) == IF a >= b THEN a ELSE b

\* ------------------------------------------------------------------ schema
\* DataType::all(): the canonical enumeration order.
AllTypes == <<"U8", "U16", "U32", "U64", "I8", "I16", "I32", "I64", "F32", "F64">>

DataTypes == {AllTypes[k] : k \in 1..Len(AllTypes)}

\* DataType::size
Size(t) ==
    CASE t \in {"U8", "I8"} -> 1
      [] t \in {"U16", "I16"} -> 2
      [] t \in {"U32", "I32", "F32"} -> 4
      [] t \in {"U64", "I64", "F64"} -> 8

\* Endianness::default
DefaultEndianness == "Little"

\* Field::new: empty comment, default endianness.
FieldNew(name, offset, data_type) ==
    [name |-> name, offset |-> offset, data_type |-> data_type,
     comment |-> "", endianness |-> DefaultEndianness]

\* ------------------------------------------------------- offset text parsing
\* Limbs of the accumulator of from_str_radix: four 16-bit limbs, least
\* significant first, so that 64-bit overflow is detected exactly.
LimbBase == 256 * 256

HexDigits == <<"0", "1", "2", "3", "4", "5", "6", "7", "8", "9",
               "A", "B", "C", "D", "E", "F">>

LowerHexDigits == <<"0", "1", "2", "3", "4", "5", "6", "7", "8", "9",
                    "a", "b", "c", "d", "e", "f">>

\* char::to_digit(radix): the digit's value, or -1 when c is no digit.
ToDigit(c, radix) ==
    LET hits == {k \in 1..16 : HexDigits[k] = c \/ LowerHexDigits[k] = c}
    IN IF hits = {} THEN -1
       ELSE LET v == (CHOOSE k \in hits : TRUE) - 1
            IN IF v < radix THEN v ELSE -1

\* acc * radix + d on the limbs: <<new limbs, overflowed>>.
MulAdd(acc, radix, d) ==
    LET t1 == acc[1] * radix + d
        t2 == acc[2] * radix + (t1 \div LimbBase)
        t3 == acc[3] * radix + (t2 \div LimbBase)
        t4 == acc[4] * radix + (t3 \div LimbBase)
    IN <<(<<t1 % LimbBase, t2 % LimbBase, t3 % LimbBase, t4 % LimbBase>>),
         t4 \div LimbBase > 0>>

\* The usize a limb accumulator holds, in the two-window notation.
LimbsToUsize(acc) ==
    IF acc[4] = LimbBase - 1 /\ acc[3] = LimbBase - 1 /\ acc[2] >= LimbBase - 16384
    THEN acc[1] + (acc[2] - LimbBase) * LimbBase
    ELSE acc[1] + acc[2] * LimbBase

RECURSIVE ParseDigits(_, _, _, _)
\* The digit loop of usize::from_str_radix: any non-digit or an overflow fails.
ParseDigits(s, k, radix, acc) ==
    IF k > Len(s) THEN [ok |-> TRUE, val |-> LimbsToUsize(acc)]
    ELSE LET d == ToDigit(s[k], radix)
         IN IF d < 0 THEN [ok |-> FALSE, val |-> 0]
            ELSE LET r == MulAdd(acc, radix, d)
                 IN IF r[2] THEN [ok |-> FALSE, val |-> 0]
                    ELSE ParseDigits(s, k + 1, radix, r[1])

\* usize::from_str_radix: empty text fails, one leading "+" is accepted, a
\* lone sign fails.
FromStrRadix(s, radix) ==
    IF Len(s) = 0 THEN [ok |-> FALSE, val |-> 0]
    ELSE LET body == IF s[1] = "+" THEN Tail(s) ELSE s
         IN IF Len(body) = 0 THEN [ok |-> FALSE, val |-> 0]
            ELSE ParseDigits(body, 1, radix, <<0, 0, 0, 0>>)

\* The offset parse of both dialogs: "0x" prefix means hexadecimal, else decimal.
ParseOffset(text) ==
    IF Len(text) >= 2 /\ text[1] = "0" /\ text[2] = "x"
    THEN FromStrRadix(SubSeq(text, 3, Len(text)), 16)
    ELSE FromStrRadix(text, 10)

\* ------------------------------------------------------------- read_value
\* An integer read from the buffer is kept as its base-256 digits, most
\* significant first, and printed in decimal as to_string prints it.
DecimalDigits == <<"0", "1", "2", "3", "4", "5", "6", "7", "8", "9">>

Reverse(s) == [k \in 1..Len(s) |-> s[Len(s) + 1 - k]]

\* from_le_bytes with the byte order of from_be_bytes.
from_le_bytes_AsBe(bytes) == bytes

\* uN::from_le_bytes: the first byte is the least significant.
from_le_bytes(bytes) == Reverse(bytes)

\* uN::from_be_bytes: the first byte is the most significant.
from_be_bytes(bytes) == bytes

\* The match on endianness in every multi-byte arm of read_value.
Assemble(bytes, endianness) ==
    IF endianness = "Little" THEN from_le_bytes(bytes) ELSE from_be_bytes(bytes)

IsZero(digits) == \A k \in 1..Len(digits) : digits[k] = 0

RECURSIVE DivTen(_, _, _)
\* Long division of base-256 digits by ten: <<quotient digits, remainder>>.
DivTen(digits, k, rem) ==
    IF k > Len(digits) THEN <<(<<>>), rem>>
    ELSE LET cur == rem * 256 + digits[k]
             rest == DivTen(digits, k + 1, cur % 10)
         IN <<(<<cur \div 10>>) \o rest[1], rest[2]>>

RECURSIVE DecimalOf(_)
\* The decimal digits of a non-zero magnitude, most significant first.
DecimalOf(digits) ==
    IF IsZero(digits) THEN ""
    ELSE LET qr == DivTen(digits, 1, 0)
         IN DecimalOf(qr[1]) \o DecimalDigits[qr[2] + 1]

\* Display of an unsigned integer.
UnsignedToString(digits) == IF IsZero(digits) THEN "0" ELSE DecimalOf(digits)

RECURSIVE AddOne(_, _)
\* digits + 1 modulo 256^Len(digits), from digit k down.
AddOne(digits, k) ==
    IF k = 0 THEN digits
    ELSE IF digits[k] = 255 THEN AddOne([digits EXCEPT ![k] = 0], k - 1)
    ELSE [digits EXCEPT ![k] = digits[k] + 1]

\* A negation that inverts the bits and forgets to add one.
Negate_OnesComplement(digits) == [k \in 1..Len(digits) |-> 255 - digits[k]]

\* The magnitude of a negative two's-complement value: invert and add one.
Negate(digits) == AddOne([k \in 1..Len(digits) |-> 255 - digits[k]], Len(digits))

\* Display of a signed integer: the sign bit is the top bit of the first digit.
SignedToString(digits) ==
    IF digits[1] >= 128 THEN "-" \o DecimalOf(Negate(digits))
    ELSE UnsignedToString(digits)

RECURSIVE HexOf(_)
HexOf(digits) ==
    IF digits = <<>> THEN ""
    ELSE HexDigits[(digits[1] \div 16) + 1] \o HexDigits[(digits[1] % 16) + 1]
         \o HexOf(Tail(digits))

\* Display of a float is a function of its bit pattern; the model keeps the
\* bit pattern and does not compute the decimal expansion.
FloatToString(t, digits) == (IF t = "F32" THEN "f32:" ELSE "f64:") \o HexOf(digits)

\* The match of read_value on the type, over the bytes of the slice.
Render(t, bytes, endianness) ==
    CASE t = "U8" -> UnsignedToString(<<bytes[1]>>)
      [] t = "I8" -> SignedToString(<<bytes[1]>>)
      [] t \in {"U16", "U32", "U64"} -> UnsignedToString(Assemble(bytes, endianness))
      [] t \in {"I16", "I32", "I64"} -> SignedToString(Assemble(bytes, endianness))
      [] t \in {"F32", "F64"} -> FloatToString(t, Assemble(bytes, endianness))

\* a + b on usize for a small b >= 0: the sum wraps at 2^64.
WrappingAdd(a, b) == a + b

\* Whether a + b leaves the 64-bit word.
AddOverflows(a, b) == a < 0 /\ a + b >= 0

\* a > b on usize.
UsizeGt(a, b) == IF (a < 0) = (b < 0) THEN a > b ELSE a < 0

\* DataType::read_value.  With overflow checks (the debug profile) an
\* overflowing offset + size panics at the addition; without them (the
\* release profile) the sum wraps, passes the bounds test and the slice
\* panics because its start lies after its end.  `read` is the set of buffer
\* indices the call reads.
read_value(t, buf, offset, endianness, overflow_checks) ==
    IF overflow_checks /\ AddOverflows(offset, Size(t))
    THEN [kind |-> "Panic", at |-> "add", value |-> "", read |-> {}]
    ELSE LET end == WrappingAdd(offset, Size(t))
         IN IF UsizeGt(end, Len(buf))
            THEN [kind |-> "None", at |-> "", value |-> "", read |-> {}]
            ELSE IF UsizeGt(offset, end)
            THEN [kind |-> "Panic", at |-> "slice", value |-> "", read |-> {}]
            ELSE [kind |-> "Some", at |-> "",
                  value |-> Render(t, SubSeq(buf, offset + 1, end), endianness),
                  read |-> offset..(end - 1)]

\* ------------------------------------------------------------- application
VARIABLES
    data,                    \* BinaryData.data
    file_path,               \* BinaryData.file_path
    fields,                  \* SchematicApp.fields
    selected_fields,         \* SchematicApp.selected_fields
    last_selected_field,     \* SchematicApp.last_selected_field (the anchor)
    add_field_window_open,   \* SchematicApp.add_field_window_open
    edit_field_window_open,  \* SchematicApp.edit_field_window_open
    edit_field_idx,          \* SchematicApp.edit_field_idx
    schema_file_path,        \* SchematicApp.schema_file_path
    schema_disk,             \* the schema files on disk: path -> file
    lastAction               \* the handler that ran last, with its inputs

appVars == <<data, file_path, fields, selected_fields, last_selected_field,
             add_field_window_open, edit_field_window_open, edit_field_idx,
             schema_file_path, schema_disk, lastAction>>

\* What lastAction holds: the handler, the row it was given, the modifier
\* keys held, whether the handler reported success, the selection and anchor
\* the handler started from, and the name and offset text a dialog button
\* read from its form or the path a schema file handler was given (empty for
\* the other handlers).
Act(op, idx, ctrl, shift, ok) ==
    [op |-> op, idx |-> idx, ctrl |-> ctrl, shift |-> shift, ok |-> ok,
     before |-> [selected |-> selected_fields, anchor |-> last_selected_field],
     name |-> "", offset_text |-> <<>>]

\* lastAction after the Add or the Save button.
ActForm(op, ok, name, offset_text) ==
    [Act(op, 0, FALSE, FALSE, ok) EXCEPT !.name = name, !.offset_text = offset_text]

\* lastAction after a schema file was loaded or saved.
ActFile(op, ok, path) == [Act(op, 0, FALSE, FALSE, ok) EXCEPT !.name = path]

\* lastAction before any handler has run.
NoAction ==
    [op |-> "Init", idx |-> 0, ctrl |-> FALSE, shift |-> FALSE, ok |-> TRUE,
     before |-> [selected |-> {}, anchor |-> None],
     name |-> "", offset_text |-> <<>>]

\* ---- inputs of the handlers
\* Files the open dialog can pick: one that cannot be opened, one whose read
\* fails after a byte, an empty one, one with bytes.
BinaryFiles ==
    {[path |-> "missing.bin", opens |-> FALSE, ok |-> FALSE, bytes |-> <<>>],
     [path |-> "torn.bin", opens |-> TRUE, ok |-> FALSE, bytes |-> <<7>>],
     [path |-> "empty.bin", opens |-> TRUE, ok |-> TRUE, bytes |-> <<>>],
     [path |-> "a.bin", opens |-> TRUE, ok |-> TRUE, bytes |-> <<1, 2>>]}

\* What the text boxes of a dialog can hold when its button is pressed.
NameInputs == {"", "a"}

OffsetInputs == {<<"0", "x", "1">>, <<"z", "z">>}

TypeIdxInputs == {0, 5}

CommentInputs == {"c"}

\* ---- persistence: Schema as a TOML document
\* A document is the array of tables under the key fields; a table is a
\* sequence of entries; an entry has a key, the kind of its value ("string"
\* or "integer") and the value's text (the characters of an integer, the
\* content of a string).
Entry(key, kind, text) == [key |-> key, kind |-> kind, text |-> text]

\* The eight bytes of a usize, most significant first.
UsizeBytes(n) ==
    LET mag == IF n >= 0 THEN n ELSE 0 - n
        low == [k \in 1..8 |-> IF k <= 4 THEN 0
                               ELSE (mag \div (256 ^ (8 - k))) % 256]
    IN IF n >= 0 THEN low ELSE Negate(low)

RECURSIVE DecimalTextOf(_)
\* The decimal digits of a non-zero magnitude as characters.
DecimalTextOf(digits) ==
    IF IsZero(digits) THEN <<>>
    ELSE LET qr == DivTen(digits, 1, 0)
         IN Append(DecimalTextOf(qr[1]), DecimalDigits[qr[2] + 1])

\* Display of a usize, as characters.
UsizeToText(n) == IF n = 0 THEN <<"0">> ELSE DecimalTextOf(UsizeBytes(n))

\* Whether a usize exceeds i64::MAX, the largest TOML integer.
AboveI64Max(n) == n < 0

\* The derived Serialize of Field: the attributes in declaration order, the
\* enums by variant name.
ser_field(f) ==
    <<Entry("name", "string", f.name),
      Entry("offset", "integer", UsizeToText(f.offset)),
      Entry("data_type", "string", f.data_type),
      Entry("comment", "string", f.comment),
      Entry("endianness", "string", f.endianness)>>

\* toml::to_string_pretty(&Schema).  A serializer that checks the range of
\* a u64 fails on one above i64::MAX; one that does not writes its digits.
to_string_pretty(fs, range_checked) ==
    IF range_checked /\ \E k \in 1..Len(fs) : AboveI64Max(fs[k].offset)
    THEN [ok |-> FALSE, doc |-> <<>>]
    ELSE [ok |-> TRUE, doc |-> [k \in 1..Len(fs) |-> ser_field(fs[k])]]

\* Deserialize of usize from a TOML integer: the integer is read as an i64
\* (a text above i64::MAX is no TOML integer) and must not be negative.
de_usize(text) ==
    IF Len(text) > 0 /\ text[1] = "-"
    THEN LET r == FromStrRadix(Tail(text), 10)
         IN [ok |-> r.ok /\ r.val = 0, val |-> 0]
    ELSE LET r == FromStrRadix(text, 10)
         IN [ok |-> r.ok /\ ~AboveI64Max(r.val), val |-> r.val]

\* The entries of a table under a key.
Lookup(table, key) == {k \in 1..Len(table) : table[k].key = key}

\* One attribute of the derived Deserialize of Field: the key must occur
\* once, with a value of the kind.
HasAttr(table, key, kind) ==
    /\ Cardinality(Lookup(table, key)) = 1
    /\ \A k \in Lookup(table, key) : table[k].kind = kind

AttrText(table, key) == table[CHOOSE k \in Lookup(table, key) : TRUE].text

\* The derived Deserialize of Field: all five attributes are required (none
\* carries #[serde(default)]), other keys are skipped.
de_field(table) ==
    IF /\ HasAttr(table, "name", "string")
       /\ HasAttr(table, "offset", "integer")
       /\ HasAttr(table, "data_type", "string")
       /\ HasAttr(table, "comment", "string")
       /\ HasAttr(table, "endianness", "string")
    THEN LET offset == de_usize(AttrText(table, "offset"))
             data_type == AttrText(table, "data_type")
             endianness == AttrText(table, "endianness")
         IN IF offset.ok /\ data_type \in DataTypes
                         /\ endianness \in {"Little", "Big"}
            THEN [ok |-> TRUE,
                  field |-> [name |-> AttrText(table, "name"),
                             offset |-> offset.val,
                             data_type |-> data_type,
                             comment |-> AttrText(table, "comment"),
                             endianness |-> endianness]]
            ELSE [ok |-> FALSE, field |-> FieldNew("", 0, "U8")]
    ELSE [ok |-> FALSE, field |-> FieldNew("", 0, "U8")]

\* toml::from_str::<Schema>: one table that fails fails the document.
from_str(doc) ==
    LET parsed == [k \in 1..Len(doc) |-> de_field(doc[k])]
    IN IF \A k \in 1..Len(doc) : parsed[k].ok
       THEN [ok |-> TRUE, fields |-> [k \in 1..Len(doc) |-> parsed[k].field]]
       ELSE [ok |-> FALSE, fields |-> <<>>]

\* A file that read_to_string reads, and one it cannot read.
FileOf(doc) == [readable |-> TRUE, doc |-> doc]

Unreadable == [readable |-> FALSE, doc |-> <<>>]

\* The schema files the whole application finds on disk: one that cannot be
\* read and two that hold a schema (the second with a big-endian field).
SchemaFiles ==
    ("bad.toml" :> Unreadable)
    @@ ("one.toml" :>
          FileOf(<<ser_field([name |-> "y", offset |-> 4, data_type |-> "U16",
                              comment |-> "", endianness |-> "Little"])>>))
    @@ ("two.toml" :>
          FileOf(<<ser_field([name |-> "x", offset |-> 0, data_type |-> "U32",
                              comment |-> "", endianness |-> "Big"]),
                   ser_field([name |-> "y", offset |-> 4, data_type |-> "U16",
                              comment |-> "", endianness |-> "Little"])>>))

\* A load that keeps the tables that parse when the document does not.
load_schema_KeepParsable(cur_fields, cur_path, path, file) ==
    IF ~file.readable
    THEN [fields |-> cur_fields, schema_file_path |-> cur_path, ok |-> FALSE]
    ELSE LET schema == from_str(file.doc)
             good == SelectSeq(file.doc, LAMBDA t : de_field(t).ok)
         IN IF schema.ok
            THEN [fields |-> schema.fields, schema_file_path |-> Some(path),
                  ok |-> TRUE]
            ELSE [fields |-> [k \in 1..Len(good) |-> de_field(good[k]).field],
                  schema_file_path |-> cur_path, ok |-> FALSE]

\* load_schema on the file the dialog picked: fields and the remembered path
\* afterwards, and whether the document was read and parsed.
load_schema(cur_fields, cur_path, path, file) ==
    IF ~file.readable
    THEN [fields |-> cur_fields, schema_file_path |-> cur_path, ok |-> FALSE]
    ELSE LET schema == from_str(file.doc)
         IN IF schema.ok
            THEN [fields |-> schema.fields, schema_file_path |-> Some(path),
                  ok |-> TRUE]
            ELSE [fields |-> cur_fields, schema_file_path |-> cur_path,
                  ok |-> FALSE]

\* ---- BinaryData
\* BinaryData::is_loaded
is_loaded == data # <<>>

\* ---- the selection model: each click branch and the deletion repair, as
\* functions of (selected_fields, last_selected_field, row).
\* Ctrl+Click that moves the anchor only when it adds the row.
SelectCtrl_AnchorOnInsert(S, a, idx) ==
    IF idx \in S THEN [selected |-> S \ {idx}, anchor |-> a]
    ELSE [selected |-> S \cup {idx}, anchor |-> Some(idx)]

\* Ctrl+Click: toggle the row, move the anchor.
SelectCtrl(S, a, idx) ==
    [selected |-> IF idx \in S THEN S \ {idx} ELSE S \cup {idx},
     anchor |-> Some(idx)]

\* Shift+Click whose range runs from the anchor up to the row only.
SelectShift_NoMinMax(S, a, idx) ==
    IF a # None
    THEN [selected |-> S \cup (a[1]..idx), anchor |-> Some(idx)]
    ELSE [selected |-> {idx}, anchor |-> Some(idx)]

\* Shift+Click that, without an anchor, keeps the rows already selected.
SelectShift_KeepOld(S, a, idx) ==
    IF a # None
    THEN [selected |-> S \cup (Min(a[1], idx)..Max(a[1], idx)), anchor |-> Some(idx)]
    ELSE [selected |-> S \cup {idx}, anchor |-> Some(idx)]

\* Shift+Click: add the range from the anchor, or select the row alone.
SelectShift(S, a, idx) ==
    IF a # None
    THEN LET last == a[1]
             start == Min(last, idx)
             end == Max(last, idx)
         IN [selected |-> S \cup (start..end), anchor |-> Some(idx)]
    ELSE [selected |-> {idx}, anchor |-> Some(idx)]

\* Normal click that toggles off whenever the row is selected, sole or not.
SelectPlain_NoLenCheck(S, a, idx) ==
    IF idx \in S
    THEN [selected |-> {}, anchor |-> None]
    ELSE [selected |-> {idx}, anchor |-> Some(idx)]

\* Normal click: toggle off the sole selection, else select the row alone.
SelectPlain(S, a, idx) ==
    IF Cardinality(S) = 1 /\ idx \in S
    THEN [selected |-> {}, anchor |-> None]
    ELSE [selected |-> {idx}, anchor |-> Some(idx)]

\* The modifier dispatch of FieldAction::Select: ctrl wins over shift.
SelectClick(S, a, idx, ctrl, shift) ==
    IF ctrl THEN SelectCtrl(S, a, idx)
    ELSE IF shift THEN SelectShift(S, a, idx)
    ELSE SelectPlain(S, a, idx)

\* Vec::swap_remove(idx): the last element takes the removed one's place.
VecRemove_Swap(v, idx) ==
    IF idx + 1 = Len(v) THEN SubSeq(v, 1, idx)
    ELSE [SubSeq(v, 1, Len(v) - 1) EXCEPT ![idx + 1] = v[Len(v)]]

\* Vec::remove(idx): the later elements move down by one.
VecRemove(v, idx) == SubSeq(v, 1, idx) \o SubSeq(v, idx + 2, Len(v))

\* A repair that drops the deleted row but does not renumber the later ones.
DeleteRepairSelected_NoShift(S, idx) == S \ {idx}

\* The selection repair of FieldAction::Delete.
DeleteRepairSelected(S, idx) ==
    LET old_selections == S \ {idx}
    IN {field_idx - 1 : field_idx \in {i \in old_selections : i > idx}}
       \cup {field_idx \in old_selections : field_idx < idx}

\* The anchor repair of FieldAction::Delete.
DeleteRepairAnchor(a, idx) ==
    IF a # None
    THEN LET last == a[1]
         IN IF last = idx THEN None
            ELSE IF last > idx THEN Some(last - 1)
            ELSE a
    ELSE a

\* ---- the dialogs
\* create_field_from_input without the test for an empty name.
create_field_from_input_AnyName(name, offset_text, type_idx, comment) ==
    LET offset == ParseOffset(offset_text)
    IN IF ~offset.ok THEN None
       ELSE Some([FieldNew(name, offset.val, AllTypes[type_idx + 1])
                     EXCEPT !.comment = comment])

\* create_field_from_input: None for an empty name or unparsable offset text.
create_field_from_input(name, offset_text, type_idx, comment) ==
    IF name = "" THEN None
    ELSE LET offset == ParseOffset(offset_text)
         IN IF ~offset.ok THEN None
            ELSE Some([FieldNew(name, offset.val, AllTypes[type_idx + 1])
                          EXCEPT !.comment = comment])

\* update_field_from_input: <<fields afterwards, returned bool>>.
update_field_from_input(fs, eidx, name, offset_text, type_idx, comment) ==
    IF name = "" THEN <<fs, FALSE>>
    ELSE IF eidx = None THEN <<fs, FALSE>>
    ELSE LET offset == ParseOffset(offset_text)
             idx == eidx[1]
         IN IF ~offset.ok THEN <<fs, FALSE>>
            ELSE LET field == [FieldNew(name, offset.val, AllTypes[type_idx + 1])
                                  EXCEPT !.comment = comment]
                 IN <<IF idx < Len(fs) THEN [fs EXCEPT ![idx + 1] = field] ELSE fs,
                      TRUE>>

\* ---- read_value call under study (the read_value specification)
VARIABLES
    rv_data,        \* the buffer read_value is given
    rv_offset,      \* its offset argument
    rv_type,        \* the DataType it is called on
    rv_endianness,  \* its endianness argument
    rv_result       \* what the call produced

rvVars == <<rv_data, rv_offset, rv_type, rv_endianness, rv_result>>

\* ---- HexView: one row of the hex view under study (the hex view
\* specification)
VARIABLES
    hv_fields,         \* the fields HexView::show is given
    hv_row_idx,        \* row_idx: the row being rendered
    hv_chunk_len,      \* chunk.len(): the bytes of that row
    hv_byte_idx,       \* the position of the grouping loop in the row
    hv_current_field,  \* current_field: the run the loop has open
    hv_found,          \* what get_field_at_offset returned for the last byte
    hv_spans,          \* the calls of draw_field_highlight so far, in order
    hv_pc              \* "idle", "loop", "done" or "panic"

hvVars == <<hv_fields, hv_row_idx, hv_chunk_len, hv_byte_idx,
            hv_current_field, hv_found, hv_spans, hv_pc>>

\* ---- one frame of SchematicApp::update under study (the frame
\* specification)
VARIABLES
    fr_pc,       \* the part of update that runs next
    fr_action,   \* what DataView::show returned in this frame
    fr_earlier   \* the handlers that changed the field list earlier in this frame

frVars == <<fr_pc, fr_action, fr_earlier>>

\* ---- the field under edit (the edit specification)
VARIABLES
    ed_opened    \* where the field the Edit dialog was opened on is now, if
                 \* it is still in the list

edVars == <<ed_opened>>

vars == <<appVars, rvVars, hvVars, frVars, edVars>>

\* No read_value call is under study while the application runs.
RvIdle ==
    /\ rv_data = <<>>
    /\ rv_offset = 0
    /\ rv_type = "U8"
    /\ rv_endianness = "Little"
    /\ rv_result = [kind |-> "NotCalled"]

\* No row of the hex view is under study.
HvIdle ==
    /\ hv_fields = <<>>
    /\ hv_row_idx = 0
    /\ hv_chunk_len = 0
    /\ hv_byte_idx = 0
    /\ hv_current_field = None
    /\ hv_found = None
    /\ hv_spans = <<>>
    /\ hv_pc = "idle"

\* No frame is followed part by part.
FrIdle ==
    /\ fr_pc = "shortcuts"
    /\ fr_action = None
    /\ fr_earlier = {}

\* No field is followed through the list.
EdIdle == ed_opened = None

\* ---- handlers of SchematicApp
\* SchematicApp::default
AppDefault ==
    /\ data = <<>>
    /\ file_path = None
    /\ fields = <<>>
    /\ selected_fields = {}
    /\ last_selected_field = None
    /\ add_field_window_open = FALSE
    /\ edit_field_window_open = FALSE
    /\ edit_field_idx = None
    /\ schema_file_path = None
    /\ lastAction = NoAction

\* A load that reads into self.data itself, so a failed read leaves the
\* bytes read so far behind.
load_from_file_ReadInPlace(cur_data, cur_path, f) ==
    IF ~f.opens THEN [data |-> cur_data, file_path |-> cur_path, ok |-> FALSE]
    ELSE IF ~f.ok THEN [data |-> cur_data \o f.bytes, file_path |-> cur_path,
                        ok |-> FALSE]
    ELSE [data |-> f.bytes, file_path |-> Some(f.path), ok |-> TRUE]

\* BinaryData::load_from_file: the bytes go to a local vector; a failed open
\* or read returns before anything is assigned.
load_from_file(cur_data, cur_path, f) ==
    IF ~f.opens THEN [data |-> cur_data, file_path |-> cur_path, ok |-> FALSE]
    ELSE IF ~f.ok THEN [data |-> cur_data, file_path |-> cur_path, ok |-> FALSE]
    ELSE [data |-> f.bytes, file_path |-> Some(f.path), ok |-> TRUE]

\* open_file on the file the dialog picked.
OpenFile(f) ==
    /\ LET r == load_from_file(data, file_path, f)
       IN /\ data' = r.data
          /\ file_path' = r.file_path
          /\ lastAction' = Act("OpenFile", 0, FALSE, FALSE, r.ok)
    /\ UNCHANGED <<schema_disk, fields, selected_fields, last_selected_field,
                   add_field_window_open, edit_field_window_open,
                   edit_field_idx, schema_file_path>>

\* BinaryData::clear: no handler of the application calls it.
Clear ==
    /\ data' = <<>>
    /\ file_path' = None
    /\ lastAction' = Act("Clear", 0, FALSE, FALSE, TRUE)
    /\ UNCHANGED <<schema_disk, fields, selected_fields, last_selected_field,
                   add_field_window_open, edit_field_window_open,
                   edit_field_idx, schema_file_path>>

\* Schema > Add Field... (and Ctrl+N): open the Add dialog.
OpenAddFieldWindow ==
    /\ add_field_window_open' = TRUE
    /\ lastAction' = Act("OpenAddFieldWindow", 0, FALSE, FALSE, TRUE)
    /\ UNCHANGED <<schema_disk, data, file_path, fields, selected_fields, last_selected_field,
                   edit_field_window_open, edit_field_idx, schema_file_path>>

\* show_add_field_window and show_edit_field_window copy the flag into the
\* local window_open, hand that to egui (which clears it when the close box
\* is clicked), run the buttons, and end by storing window_open back into the
\* flag: what a button wrote to the flag is overwritten by that last store.
WindowOpenAfter(window_open, written_by_button) == window_open

\* The Add button of the Add dialog.
AddFieldSubmit(name, offset_text, type_idx, comment) ==
    /\ add_field_window_open
    /\ LET made == create_field_from_input(name, offset_text, type_idx, comment)
       IN /\ made # None => Len(fields) < MaxFields
          /\ fields' = IF made # None THEN Append(fields, made[1]) ELSE fields
          /\ add_field_window_open' = WindowOpenAfter(TRUE, made = None)
          /\ lastAction' = ActForm("AddFieldSubmit", made # None, name, offset_text)
    /\ UNCHANGED <<schema_disk, data, file_path, selected_fields, last_selected_field,
                   edit_field_window_open, edit_field_idx, schema_file_path>>

\* The Cancel button of the Add dialog: it resets the form.
AddFieldCancel ==
    /\ add_field_window_open
    /\ add_field_window_open' = WindowOpenAfter(TRUE, FALSE)
    /\ lastAction' = Act("AddFieldCancel", 0, FALSE, FALSE, TRUE)
    /\ UNCHANGED <<schema_disk, data, file_path, fields, selected_fields, last_selected_field,
                   edit_field_window_open, edit_field_idx, schema_file_path>>

\* The close box of the Add dialog.
AddFieldClose ==
    /\ add_field_window_open
    /\ add_field_window_open' = WindowOpenAfter(FALSE, TRUE)
    /\ lastAction' = Act("AddFieldClose", 0, FALSE, FALSE, TRUE)
    /\ UNCHANGED <<schema_disk, data, file_path, fields, selected_fields, last_selected_field,
                   edit_field_window_open, edit_field_idx, schema_file_path>>

\* Schema > Clear All Fields.
ClearAllFields ==
    /\ fields' = <<>>
    /\ lastAction' = Act("ClearAllFields", 0, FALSE, FALSE, TRUE)
    /\ UNCHANGED <<schema_disk, data, file_path, selected_fields, last_selected_field,
                   add_field_window_open, edit_field_window_open,
                   edit_field_idx, schema_file_path>>

\* Schema > Load Schema... on the file the dialog picked.
LoadSchema(path) ==
    /\ LET r == load_schema(fields, schema_file_path, path, schema_disk[path])
       IN /\ fields' = r.fields
          /\ schema_file_path' = r.schema_file_path
          /\ lastAction' = ActFile("LoadSchema", r.ok, path)
    /\ UNCHANGED <<schema_disk, data, file_path, selected_fields, last_selected_field,
                   add_field_window_open, edit_field_window_open, edit_field_idx>>

\* save_schema, save_schema_as and save_schema_smart with the path the
\* dialog gave or the remembered one, fs::write succeeding: they return at
\* once when there are no fields.
SaveSchema(path, range_checked) ==
    /\ fields # <<>>
    /\ LET toml_string == to_string_pretty(fields, range_checked)
       IN /\ schema_disk' = IF toml_string.ok
                             THEN [schema_disk EXCEPT ![path] = FileOf(toml_string.doc)]
                             ELSE schema_disk
          /\ schema_file_path' = IF toml_string.ok THEN Some(path)
                                  ELSE schema_file_path
          /\ lastAction' = ActFile("SaveSchema", toml_string.ok, path)
    /\ UNCHANGED <<data, file_path, fields, selected_fields, last_selected_field,
                   add_field_window_open, edit_field_window_open, edit_field_idx>>

\* The same with fs::write failing: the error is printed, nothing is
\* remembered.
SaveSchemaWriteFails(path, range_checked) ==
    /\ fields # <<>>
    /\ to_string_pretty(fields, range_checked).ok
    /\ lastAction' = ActFile("SaveSchemaWriteFails", FALSE, path)
    /\ UNCHANGED <<data, file_path, fields, selected_fields, last_selected_field,
                   add_field_window_open, edit_field_window_open, edit_field_idx,
                   schema_file_path, schema_disk>>

\* The rows DataView::show offers: it runs only with a buffer loaded, and
\* hands out the indices of the fields it was given.
Rows == IF is_loaded THEN 0..(Len(fields) - 1) ELSE {}

\* FieldAction::Select(idx) with the modifier keys held.
Select(idx, ctrl, shift) ==
    /\ idx \in Rows
    /\ LET r == SelectClick(selected_fields, last_selected_field, idx, ctrl, shift)
       IN /\ selected_fields' = r.selected
          /\ last_selected_field' = r.anchor
    /\ lastAction' = Act("Select", idx, ctrl, shift, TRUE)
    /\ UNCHANGED <<schema_disk, data, file_path, fields, add_field_window_open,
                   edit_field_window_open, edit_field_idx, schema_file_path>>

\* FieldAction::Edit(idx): start_edit_field; the row exists, so fields.get(idx)
\* is Some.
Edit(idx) ==
    /\ idx \in Rows
    /\ edit_field_idx' = Some(idx)
    /\ edit_field_window_open' = TRUE
    /\ lastAction' = Act("Edit", idx, FALSE, FALSE, TRUE)
    /\ UNCHANGED <<schema_disk, data, file_path, fields, selected_fields, last_selected_field,
                   add_field_window_open, schema_file_path>>

\* The Save button of the Edit dialog.
EditSave(name, offset_text, type_idx, comment) ==
    /\ edit_field_window_open
    /\ LET r == update_field_from_input(fields, edit_field_idx, name,
                                        offset_text, type_idx, comment)
       IN /\ fields' = r[1]
          /\ edit_field_window_open' = WindowOpenAfter(TRUE, ~r[2])
          /\ lastAction' = ActForm("EditSave", r[2], name, offset_text)
    /\ UNCHANGED <<schema_disk, data, file_path, selected_fields, last_selected_field,
                   add_field_window_open, edit_field_idx, schema_file_path>>

\* The Cancel button of the Edit dialog.
EditCancel ==
    /\ edit_field_window_open
    /\ edit_field_window_open' = WindowOpenAfter(TRUE, FALSE)
    /\ lastAction' = Act("EditCancel", 0, FALSE, FALSE, TRUE)
    /\ UNCHANGED <<schema_disk, data, file_path, fields, selected_fields, last_selected_field,
                   add_field_window_open, edit_field_idx, schema_file_path>>

\* The close box of the Edit dialog.
EditClose ==
    /\ edit_field_window_open
    /\ edit_field_window_open' = WindowOpenAfter(FALSE, TRUE)
    /\ lastAction' = Act("EditClose", 0, FALSE, FALSE, TRUE)
    /\ UNCHANGED <<schema_disk, data, file_path, fields, selected_fields, last_selected_field,
                   add_field_window_open, edit_field_idx, schema_file_path>>

\* FieldAction::Delete(idx): the removal and the selection repair.
Delete(idx) ==
    /\ idx \in Rows
    /\ fields' = VecRemove(fields, idx)
    /\ selected_fields' = DeleteRepairSelected(selected_fields, idx)
    /\ last_selected_field' = DeleteRepairAnchor(last_selected_field, idx)
    /\ lastAction' = Act("Delete", idx, FALSE, FALSE, TRUE)
    /\ UNCHANGED <<schema_disk, data, file_path, add_field_window_open,
                   edit_field_window_open, edit_field_idx, schema_file_path>>

\* ---- the whole application
Init == AppDefault /\ schema_disk = SchemaFiles /\ RvIdle /\ HvIdle /\ FrIdle /\ EdIdle

Next ==
    \/ \E f \in BinaryFiles : OpenFile(f) /\ UNCHANGED <<rvVars, hvVars, frVars, edVars>>
    \/ OpenAddFieldWindow /\ UNCHANGED <<rvVars, hvVars, frVars, edVars>>
    \/ \E name \in NameInputs, offset_text \in OffsetInputs,
          type_idx \in TypeIdxInputs, comment \in CommentInputs :
            AddFieldSubmit(name, offset_text, type_idx, comment) /\ UNCHANGED <<rvVars, hvVars, frVars, edVars>>
    \/ AddFieldCancel /\ UNCHANGED <<rvVars, hvVars, frVars, edVars>>
    \/ AddFieldClose /\ UNCHANGED <<rvVars, hvVars, frVars, edVars>>
    \/ ClearAllFields /\ UNCHANGED <<rvVars, hvVars, frVars, edVars>>
    \/ \E path \in DOMAIN schema_disk : LoadSchema(path) /\ UNCHANGED <<rvVars, hvVars, frVars, edVars>>
    \/ \E idx \in Rows, ctrl \in BOOLEAN, shift \in BOOLEAN :
            Select(idx, ctrl, shift) /\ UNCHANGED <<rvVars, hvVars, frVars, edVars>>
    \/ \E idx \in Rows : Edit(idx) /\ UNCHANGED <<rvVars, hvVars, frVars, edVars>>
    \/ \E name \in NameInputs, offset_text \in OffsetInputs,
          type_idx \in TypeIdxInputs, comment \in CommentInputs :
            EditSave(name, offset_text, type_idx, comment) /\ UNCHANGED <<rvVars, hvVars, frVars, edVars>>
    \/ EditCancel /\ UNCHANGED <<rvVars, hvVars, frVars, edVars>>
    \/ EditClose /\ UNCHANGED <<rvVars, hvVars, frVars, edVars>>
    \/ \E idx \in Rows : Delete(idx) /\ UNCHANGED <<rvVars, hvVars, frVars, edVars>>

Spec == Init /\ [][Next]_vars

\* ---- the selection model alone
\* A field list of n distinct fields, as n Add dialogs leave it.
SelFields(n) == [k \in 1..n |-> FieldNew("f", k - 1, "U8")]

\* The states the clicks and the deletion start from: a buffer is loaded, the
\* dialogs are closed, and the list, the selection and the anchor are any the
\* application can hold (a selection survives Clear All Fields and a schema
\* load, so it need not lie within the list).
InitSel ==
    /\ data = <<1, 2>>
    /\ file_path = Some("a.bin")
    /\ fields \in {SelFields(n) : n \in 0..MaxSelFields}
    /\ selected_fields \in SUBSET (0..(MaxSelFields - 1))
    /\ last_selected_field \in {None} \cup {Some(i) : i \in 0..(MaxSelFields - 1)}
    /\ add_field_window_open = FALSE
    /\ edit_field_window_open = FALSE
    /\ edit_field_idx = None
    /\ schema_file_path = None
    /\ schema_disk = SchemaFiles
    /\ lastAction = NoAction
    /\ RvIdle
    /\ HvIdle
    /\ FrIdle
    /\ EdIdle

NextSel ==
    \/ \E idx \in Rows, ctrl \in BOOLEAN, shift \in BOOLEAN :
            Select(idx, ctrl, shift) /\ UNCHANGED <<rvVars, hvVars, frVars, edVars>>
    \/ \E idx \in Rows : Delete(idx) /\ UNCHANGED <<rvVars, hvVars, frVars, edVars>>

SpecSel == InitSel /\ [][NextSel]_vars

\* ---- read_value alone
\* Byte values the buffers are built from: zero, and a byte with both its top
\* bit (the sign) and its low bit set.
ByteValues == {0, 129}

\* One-byte buffers of every byte value, and for each integer width the
\* buffers that hold the extreme values in either byte order: all ones, the
\* sign bit alone, and everything but the sign bit.
EdgeBuffers ==
    [1..1 -> 0..255]
    \cup UNION {{[k \in 1..n |-> 255],
                 [k \in 1..n |-> IF k = 1 THEN 128 ELSE 0],
                 [k \in 1..n |-> IF k = n THEN 128 ELSE 0],
                 [k \in 1..n |-> IF k = 1 THEN 127 ELSE 255],
                 [k \in 1..n |-> IF k = n THEN 127 ELSE 255]} : n \in {2, 4, 8}}

\* The buffers read_value is given: every buffer of at most MaxBufLen bytes
\* over ByteValues, and the edge buffers.
Buffers == UNION {[1..n -> ByteValues] : n \in 0..MaxBufLen} \cup EdgeBuffers

\* Offsets: every offset up to the longest buffer's length, and two offsets
\* within 8 of usize::MAX (2^64 - 8 and 2^64 - 1).
RvOffsets == (0..MaxBufLen) \cup {-8, -1}

Endiannesses == {"Little", "Big"}

InitRead ==
    /\ AppDefault
    /\ schema_disk = SchemaFiles
    /\ rv_data \in Buffers
    /\ rv_offset \in RvOffsets
    /\ rv_type \in DataTypes
    /\ rv_endianness \in Endiannesses
    /\ rv_result = [kind |-> "NotCalled"]
    /\ HvIdle
    /\ FrIdle
    /\ EdIdle

\* Field::read_value: one call of DataType::read_value, under either build
\* profile.
ReadValue(overflow_checks) ==
    /\ rv_result.kind = "NotCalled"
    /\ rv_result' = read_value(rv_type, rv_data, rv_offset, rv_endianness,
                               overflow_checks)
    /\ UNCHANGED <<rv_data, rv_offset, rv_type, rv_endianness>>

NextRead == \E overflow_checks \in BOOLEAN : ReadValue(overflow_checks) /\ UNCHANGED <<appVars, hvVars, frVars, edVars>>

SpecRead == InitRead /\ [][NextRead]_vars

\* ---- the two dialogs alone
\* What the offset box can hold when a button is pressed: hexadecimal and
\* decimal numbers, the same with a sign, and texts that are no number.
FormOffsetInputs ==
    {<<"0", "x", "1">>, <<"1">>, <<"+", "1">>, <<"0", "x", "+", "1">>,
     <<>>, <<"z", "z">>, <<"-", "1">>, <<"0", "x">>, <<"0", "x", "G">>,
     <<"1", " ">>, <<"+">>, <<"0", "X", "1">>}

\* The states the buttons are pressed in: both dialogs are open, the list is
\* any of up to MaxFields fields, rows are selected or not, and the row under
\* edit is the first one or one past the longest list (the edit index
\* survives deletions, Clear All Fields and a schema load).
InitForm ==
    /\ data = <<1, 2>>
    /\ file_path = Some("a.bin")
    /\ fields \in {SelFields(n) : n \in 0..MaxFields}
    /\ selected_fields \in {{}, {0, 1}}
    /\ last_selected_field \in {None, Some(1)}
    /\ add_field_window_open = TRUE
    /\ edit_field_window_open = TRUE
    /\ edit_field_idx \in {Some(0), Some(MaxFields)}
    /\ schema_file_path = None
    /\ schema_disk = SchemaFiles
    /\ lastAction = NoAction
    /\ RvIdle
    /\ HvIdle
    /\ FrIdle
    /\ EdIdle

NextForm ==
    \/ \E name \in NameInputs, offset_text \in FormOffsetInputs,
          type_idx \in TypeIdxInputs, comment \in CommentInputs :
            AddFieldSubmit(name, offset_text, type_idx, comment)
            /\ UNCHANGED <<rvVars, hvVars, frVars, edVars>>
    \/ \E name \in NameInputs, offset_text \in FormOffsetInputs,
          type_idx \in TypeIdxInputs, comment \in CommentInputs :
            EditSave(name, offset_text, type_idx, comment)
            /\ UNCHANGED <<rvVars, hvVars, frVars, edVars>>

SpecForm == InitForm /\ [][NextForm]_vars

\* ---- the file handlers alone
\* The one schema file of this specification.
SchemaPath == "schema.toml"

\* The fields a schema is built from: a commented little-endian one, a
\* big-endian one, and one at usize::MAX.
FileFieldChoices ==
    {[name |-> "a", offset |-> 1, data_type |-> "U16", comment |-> "c",
      endianness |-> "Little"],
     [name |-> "b", offset |-> 0, data_type |-> "I64", comment |-> "",
      endianness |-> "Big"],
     [name |-> "m", offset |-> -1, data_type |-> "U8", comment |-> "",
      endianness |-> "Little"]}

\* A table that parses, and what can be wrong with a table.
GoodTable ==
    ser_field([name |-> "g", offset |-> 258, data_type |-> "F32",
               comment |-> "k", endianness |-> "Big"])

\* The table without the entry at position k.
Without(table, k) == SubSeq(table, 1, k - 1) \o SubSeq(table, k + 1, Len(table))

NoCommentTable == Without(GoodTable, 4)

NoNameTable == Without(GoodTable, 1)

BadTypeTable == [GoodTable EXCEPT ![3] = Entry("data_type", "string", "U128")]

NegativeOffsetTable == [GoodTable EXCEPT ![2] = Entry("offset", "integer", <<"-", "1">>)]

TextOffsetTable == [GoodTable EXCEPT ![2] = Entry("offset", "string", "1")]

ExtraKeyTable == Append(GoodTable, Entry("colour", "string", "red"))

\* What the schema file holds at the start: nothing readable, documents
\* that parse, a document whose field has no comment, and documents with a
\* good table next to one that does not parse.
FileContents ==
    {Unreadable,
     FileOf(<<>>),
     FileOf(<<GoodTable, ExtraKeyTable>>),
     FileOf(<<NoCommentTable>>),
     FileOf(<<GoodTable, BadTypeTable>>),
     FileOf(<<NoNameTable, GoodTable>>),
     FileOf(<<GoodTable, NegativeOffsetTable>>),
     FileOf(<<TextOffsetTable>>)}

InitFiles ==
    /\ data = <<>>
    /\ file_path = None
    /\ fields \in UNION {[1..n -> FileFieldChoices] : n \in 0..MaxFileFields}
    /\ selected_fields = {}
    /\ last_selected_field = None
    /\ add_field_window_open = FALSE
    /\ edit_field_window_open = FALSE
    /\ edit_field_idx = None
    /\ schema_file_path = None
    /\ schema_disk \in {SchemaPath :> file : file \in FileContents}
    /\ lastAction = NoAction
    /\ RvIdle
    /\ HvIdle
    /\ FrIdle
    /\ EdIdle

NextFiles ==
    \/ \E f \in BinaryFiles : OpenFile(f) /\ UNCHANGED <<rvVars, hvVars, frVars, edVars>>
    \/ \E path \in DOMAIN schema_disk : LoadSchema(path) /\ UNCHANGED <<rvVars, hvVars, frVars, edVars>>
    \/ \E path \in DOMAIN schema_disk, range_checked \in BOOLEAN :
            SaveSchema(path, range_checked) /\ UNCHANGED <<rvVars, hvVars, frVars, edVars>>
    \/ \E path \in DOMAIN schema_disk, range_checked \in BOOLEAN :
            SaveSchemaWriteFails(path, range_checked) /\ UNCHANGED <<rvVars, hvVars, frVars, edVars>>
    \/ Clear /\ UNCHANGED <<rvVars, hvVars, frVars, edVars>>

SpecFiles == InitFiles /\ [][NextFiles]_vars

\* ---- the hex view alone
\* HexView::default: bytes_per_row.
bytes_per_row == 16

\* a < b and a >= b on usize.
UsizeLt(a, b) == UsizeGt(b, a)

UsizeGe(a, b) == ~UsizeGt(b, a)

\* The closure of get_field_at_offset on one field: "no", "yes", or "panic"
\* when field.offset + field.size() overflows under overflow checks.  The
\* && evaluates the sum only if offset >= field.offset.
FieldContains(field, offset, overflow_checks) ==
    IF ~UsizeGe(offset, field.offset) THEN "no"
    ELSE IF overflow_checks /\ AddOverflows(field.offset, Size(field.data_type))
    THEN "panic"
    ELSE IF UsizeLt(offset, WrappingAdd(field.offset, Size(field.data_type)))
    THEN "yes"
    ELSE "no"

RECURSIVE FindFrom(_, _, _, _)
\* Iterator::find over fields.iter().enumerate(), from position k on.
FindFrom(fs, k, offset, overflow_checks) ==
    IF k > Len(fs) THEN [kind |-> "None", idx |-> 0]
    ELSE LET c == FieldContains(fs[k], offset, overflow_checks)
         IN IF c = "panic" THEN [kind |-> "Panic", idx |-> 0]
            ELSE IF c = "yes" THEN [kind |-> "Some", idx |-> k - 1]
            ELSE FindFrom(fs, k + 1, offset, overflow_checks)

RECURSIVE FindLastFrom(_, _, _, _)
FindLastFrom(fs, k, offset, overflow_checks) ==
    IF k = 0 THEN [kind |-> "None", idx |-> 0]
    ELSE LET c == FieldContains(fs[k], offset, overflow_checks)
         IN IF c = "panic" THEN [kind |-> "Panic", idx |-> 0]
            ELSE IF c = "yes" THEN [kind |-> "Some", idx |-> k - 1]
            ELSE FindLastFrom(fs, k - 1, offset, overflow_checks)

\* A resolution that scans from the end, so the last covering field wins.
get_field_at_offset_LastMatch(fs, offset, overflow_checks) ==
    FindLastFrom(fs, Len(fs), offset, overflow_checks)

\* HexView::get_field_at_offset: the first field in schema order that
\* contains the offset.
get_field_at_offset(fs, offset, overflow_checks) ==
    FindFrom(fs, 1, offset, overflow_checks)

\* The glyph width of the monospace font. Lengths along a row are counted in
\* halves of a glyph, so that half a glyph is a whole number; they are
\* measured from the left edge of the column's label.
char_width == 2

\* A highlight whose hex width counts a separator after every byte.
draw_field_highlight_TrailingSeparator(start_byte, end_byte) ==
    LET num_bytes == end_byte - start_byte + 1
        hex_start_x == start_byte * 3 * char_width
        hex_width == (num_bytes * 3) * char_width
        half_space == char_width \div 2
        ascii_start_x == start_byte * char_width
        ascii_width == num_bytes * char_width
    IN [hex_start_x |-> hex_start_x, hex_width |-> hex_width,
        ascii_start_x |-> ascii_start_x, ascii_width |-> ascii_width,
        hex_highlight_rect |-> [min |-> hex_start_x - half_space,
                                max |-> hex_start_x + hex_width + half_space],
        ascii_highlight_rect |-> [min |-> ascii_start_x - half_space,
                                  max |-> ascii_start_x + ascii_width + half_space]]

\* draw_field_highlight: the horizontal extent of the two rectangles it
\* paints, before the padding (start and width) and with it (the rects).
draw_field_highlight(start_byte, end_byte) ==
    LET num_bytes == end_byte - start_byte + 1
        hex_start_x == start_byte * 3 * char_width
        hex_width == (num_bytes * 2 + (num_bytes - 1)) * char_width
        half_space == char_width \div 2
        ascii_start_x == start_byte * char_width
        ascii_width == num_bytes * char_width
    IN [hex_start_x |-> hex_start_x, hex_width |-> hex_width,
        ascii_start_x |-> ascii_start_x, ascii_width |-> ascii_width,
        hex_highlight_rect |-> [min |-> hex_start_x - half_space,
                                max |-> hex_start_x + hex_width + half_space],
        ascii_highlight_rect |-> [min |-> ascii_start_x - half_space,
                                  max |-> ascii_start_x + ascii_width + half_space]]

\* One call of draw_field_highlight: its arguments and what it paints.
Draw(field_idx, start_byte, end_byte) ==
    [field_idx |-> field_idx, start_byte |-> start_byte, end_byte |-> end_byte,
     painted |-> draw_field_highlight(start_byte, end_byte)]

\* The text of bytes first..last as the hex column writes it: two digits a
\* byte, joined by one space. A digit is written as the number of its byte
\* in the row, a space as -1.
RECURSIVE JoinHex(_, _)
JoinHex(first, last) ==
    IF first > last THEN <<>>
    ELSE IF first = last THEN <<first, first>>
    ELSE <<first, first, -1>> \o JoinHex(first + 1, last)

\* hex_string with its padding: the label of the hex column for a row of
\* chunk_len bytes.
hex_string(chunk_len) ==
    JoinHex(0, chunk_len - 1) \o [k \in 1..(3 * (bytes_per_row - chunk_len)) |-> -1]

\* ascii_string: one glyph a byte.
ascii_string(chunk_len) == [k \in 1..chunk_len |-> k - 1]

\* A loop body that opens the new run without drawing the one it closes.
GroupByte_NoDrawOnChange(current_field, spans, byte_idx, found) ==
    IF found.kind = "Some"
    THEN IF current_field # None /\ current_field[1][1] = found.idx
         THEN [current_field |-> Some(<<found.idx, current_field[1][2], byte_idx>>),
               spans |-> spans]
         ELSE [current_field |-> Some(<<found.idx, byte_idx, byte_idx>>),
               spans |-> spans]
    ELSE [current_field |-> None,
          spans |-> IF current_field # None
                    THEN Append(spans, Draw(current_field[1][1], current_field[1][2],
                                            current_field[1][3]))
                    ELSE spans]

\* The body of the grouping loop for one byte: extend the open run, or draw
\* it and open a new one, or (no field) draw it and open none.
GroupByte(current_field, spans, byte_idx, found) ==
    LET drawn == IF current_field # None
                 THEN Append(spans, Draw(current_field[1][1], current_field[1][2],
                                         current_field[1][3]))
                 ELSE spans
    IN IF found.kind = "Some"
       THEN IF current_field # None /\ current_field[1][1] = found.idx
            THEN [current_field |-> Some(<<found.idx, current_field[1][2], byte_idx>>),
                  spans |-> spans]
            ELSE [current_field |-> Some(<<found.idx, byte_idx, byte_idx>>),
                  spans |-> drawn]
       ELSE [current_field |-> None, spans |-> drawn]

\* The fields the hex view is given are drawn from these: the spec's A (0,
\* width 4) and B (4, width 2), a byte inside A, an eight-byte field over
\* both, a field that crosses from row 0 into row 1, one in row 1, and one
\* two bytes below usize::MAX.
HexFieldChoices ==
    {FieldNew("f", 0, "U32"), FieldNew("f", 4, "U16"), FieldNew("f", 2, "U8"),
     FieldNew("f", 2, "U64"), FieldNew("f", 14, "I64"), FieldNew("f", 17, "I16"),
     FieldNew("f", -2, "U32")}

\* The lengths a row can have: a full row and two short final rows.
ChunkLens == {1, 5, bytes_per_row}

InitHex ==
    /\ AppDefault
    /\ schema_disk = SchemaFiles
    /\ RvIdle
    /\ FrIdle
    /\ EdIdle
    /\ hv_fields \in UNION {[1..n -> HexFieldChoices] : n \in 0..MaxHexFields}
    /\ hv_row_idx \in 0..MaxHexRow
    /\ hv_chunk_len \in ChunkLens
    /\ hv_byte_idx = 0
    /\ hv_current_field = None
    /\ hv_found = None
    /\ hv_spans = <<>>
    /\ hv_pc = "loop"

\* One iteration of the grouping loop.
HexByte(overflow_checks) ==
    /\ hv_pc = "loop"
    /\ hv_byte_idx < hv_chunk_len
    /\ LET offset == hv_row_idx * bytes_per_row
           byte_offset == offset + hv_byte_idx
           found == get_field_at_offset(hv_fields, byte_offset, overflow_checks)
       IN IF found.kind = "Panic"
          THEN /\ hv_pc' = "panic"
               /\ hv_found' = None
               /\ UNCHANGED <<hv_byte_idx, hv_current_field, hv_spans>>
          ELSE LET r == GroupByte(hv_current_field, hv_spans, hv_byte_idx, found)
               IN /\ hv_current_field' = r.current_field
                  /\ hv_spans' = r.spans
                  /\ hv_found' = IF found.kind = "Some" THEN Some(found.idx) ELSE None
                  /\ hv_byte_idx' = hv_byte_idx + 1
                  /\ hv_pc' = "loop"
    /\ UNCHANGED <<hv_fields, hv_row_idx, hv_chunk_len>>

\* After the loop: draw the run still open, if any.
HexRowEnd ==
    /\ hv_pc = "loop"
    /\ hv_byte_idx = hv_chunk_len
    /\ hv_spans' = IF hv_current_field # None
                   THEN Append(hv_spans, Draw(hv_current_field[1][1],
                                              hv_current_field[1][2],
                                              hv_current_field[1][3]))
                   ELSE hv_spans
    /\ hv_pc' = "done"
    /\ UNCHANGED <<hv_fields, hv_row_idx, hv_chunk_len, hv_byte_idx,
                   hv_current_field, hv_found>>

NextHex ==
    \/ \E overflow_checks \in BOOLEAN :
            HexByte(overflow_checks) /\ UNCHANGED <<appVars, rvVars, frVars, edVars>>
    \/ HexRowEnd /\ UNCHANGED <<appVars, rvVars, frVars, edVars>>

SpecHex == InitHex /\ [][NextHex]_vars

\* ---- one frame of SchematicApp::update, part by part
\* update runs its parts in this order: the keyboard shortcuts, the menu bar,
\* the Add dialog, the Edit dialog, then the central panel, where
\* DataView::show renders the rows and the action it returns is handled at
\* once. In the frame specification at most one handler runs in each part.
NextPart ==
    [shortcuts |-> "menu", menu |-> "add_window",
     add_window |-> "edit_window", edit_window |-> "central_panel"]

\* The modifier keys held during the frames of the frame specification.
FrameModifiers == {FALSE}

\* A value of FieldAction.
FieldAction(op, idx) == [op |-> op, idx |-> idx]

\* A table whose rows are numbered from one.
show_OneBased(fs) ==
    {None} \cup {Some(FieldAction(op, idx)) :
                    op \in {"Select", "Edit", "Delete"}, idx \in 1..Len(fs)}

\* DataView::show: what a frame's clicks on the table of fs can make it
\* return. The rows come from fs.iter().enumerate(), every row has its three
\* widgets, and with no field (or no click) the result is None.
show(fs) ==
    {None} \cup {Some(FieldAction(op, idx)) :
                    op \in {"Select", "Edit", "Delete"}, idx \in 0..(Len(fs) - 1)}

\* The handlers that changed the field list so far in the frame in progress.
Earlier == IF fr_pc = "shortcuts" THEN {} ELSE fr_earlier

\* A part before the central panel in which nothing is pressed.
FrameIdlePart ==
    /\ fr_pc \in DOMAIN NextPart
    /\ fr_pc' = NextPart[fr_pc]
    /\ fr_earlier' = Earlier
    /\ UNCHANGED <<appVars, fr_action>>

\* The bookkeeping of a part in which a handler runs: parts are the parts
\* that can run it, changed the handler's name if it changed the field list.
FramePart(parts, changed) ==
    /\ fr_pc \in parts
    /\ fr_pc' = NextPart[fr_pc]
    /\ fr_earlier' = Earlier \cup changed
    /\ UNCHANGED fr_action

\* The central panel down to the return of DataView::show: without a loaded
\* buffer it returns before the table is shown.
FrameShow ==
    /\ fr_pc = "central_panel"
    /\ fr_action' \in (IF is_loaded THEN show(fields) ELSE {None})
    /\ fr_pc' = "handle"
    /\ UNCHANGED <<appVars, fr_earlier>>

\* The end of the frame.
FrameEnd ==
    /\ fr_pc' = "shortcuts"
    /\ fr_action' = None
    /\ UNCHANGED fr_earlier

\* if let Some(action): show returned None.
FrameHandleNone ==
    /\ fr_pc = "handle"
    /\ fr_action = None
    /\ UNCHANGED appVars
    /\ FrameEnd

\* The FieldAction::Select arm.
FrameHandleSelect ==
    /\ fr_pc = "handle"
    /\ fr_action # None
    /\ fr_action[1].op = "Select"
    /\ \E ctrl \in FrameModifiers, shift \in FrameModifiers :
            Select(fr_action[1].idx, ctrl, shift)
    /\ FrameEnd

\* The FieldAction::Edit arm: start_edit_field does nothing when
\* fields.get(idx) is None.
FrameHandleEdit ==
    /\ fr_pc = "handle"
    /\ fr_action # None
    /\ fr_action[1].op = "Edit"
    /\ IF fr_action[1].idx < Len(fields)
       THEN Edit(fr_action[1].idx)
       ELSE UNCHANGED appVars
    /\ FrameEnd

\* The FieldAction::Delete arm: Vec::remove panics when the index is not
\* below the length.
FrameHandleDelete ==
    /\ fr_pc = "handle"
    /\ fr_action # None
    /\ fr_action[1].op = "Delete"
    /\ IF fr_action[1].idx < Len(fields)
       THEN Delete(fr_action[1].idx) /\ FrameEnd
       ELSE /\ fr_pc' = "panicked"
            /\ UNCHANGED <<appVars, fr_action, fr_earlier>>

\* The type the dialogs of the frame specification have selected, and the
\* offset text typed into them.
FrameTypeIdxInputs == {0}

FrameOffsetInputs == {<<"0", "x", "1">>}

\* The schema files the frame specification has on disk.
FrameSchemaPaths == {"two.toml"}

InitFrame ==
    /\ AppDefault
    /\ schema_disk = [path \in FrameSchemaPaths |-> SchemaFiles[path]]
    /\ RvIdle
    /\ HvIdle
    /\ FrIdle
    /\ EdIdle

NextFrame ==
    \/ FrameIdlePart /\ UNCHANGED <<rvVars, hvVars, edVars>>
    \/ \E f \in BinaryFiles :
            OpenFile(f) /\ FramePart({"shortcuts", "menu"}, {})
            /\ UNCHANGED <<rvVars, hvVars, edVars>>
    \/ OpenAddFieldWindow /\ FramePart({"shortcuts", "menu"}, {})
       /\ UNCHANGED <<rvVars, hvVars, edVars>>
    \/ \E path \in DOMAIN schema_disk :
            LoadSchema(path)
            /\ FramePart({"shortcuts", "menu"},
                         IF lastAction'.ok THEN {"LoadSchema"} ELSE {})
            /\ UNCHANGED <<rvVars, hvVars, edVars>>
    \/ ClearAllFields /\ FramePart({"menu"}, {"ClearAllFields"})
       /\ UNCHANGED <<rvVars, hvVars, edVars>>
    \/ \E name \in NameInputs, offset_text \in FrameOffsetInputs,
          type_idx \in FrameTypeIdxInputs, comment \in CommentInputs :
            AddFieldSubmit(name, offset_text, type_idx, comment)
            /\ FramePart({"add_window"},
                         IF lastAction'.ok THEN {"AddFieldSubmit"} ELSE {})
            /\ UNCHANGED <<rvVars, hvVars, edVars>>
    \/ AddFieldCancel /\ FramePart({"add_window"}, {}) /\ UNCHANGED <<rvVars, hvVars, edVars>>
    \/ AddFieldClose /\ FramePart({"add_window"}, {}) /\ UNCHANGED <<rvVars, hvVars, edVars>>
    \/ \E name \in NameInputs, offset_text \in FrameOffsetInputs,
          type_idx \in FrameTypeIdxInputs, comment \in CommentInputs :
            EditSave(name, offset_text, type_idx, comment)
            /\ FramePart({"edit_window"}, {})
            /\ UNCHANGED <<rvVars, hvVars, edVars>>
    \/ EditCancel /\ FramePart({"edit_window"}, {}) /\ UNCHANGED <<rvVars, hvVars, edVars>>
    \/ EditClose /\ FramePart({"edit_window"}, {}) /\ UNCHANGED <<rvVars, hvVars, edVars>>
    \/ FrameShow /\ UNCHANGED <<rvVars, hvVars, edVars>>
    \/ FrameHandleNone /\ UNCHANGED <<rvVars, hvVars, edVars>>
    \/ FrameHandleSelect /\ UNCHANGED <<rvVars, hvVars, edVars>>
    \/ FrameHandleEdit /\ UNCHANGED <<rvVars, hvVars, edVars>>
    \/ FrameHandleDelete /\ UNCHANGED <<rvVars, hvVars, edVars>>

SpecFrame == InitFrame /\ [][NextFrame]_vars

\* ---- the Edit dialog while rows are deleted
\* A field list of n fields told apart by their offsets, every second one
\* big-endian, as a schema load leaves it.
EditFields(n) ==
    [k \in 1..n |-> [FieldNew("f", k - 1, "U8")
                        EXCEPT !.endianness = IF k % 2 = 0 THEN "Big" ELSE "Little"]]

\* The texts typed into the offset box of the Edit dialog.
EditOffsetInputs == {<<"0", "x", "1", "F">>, <<"z", "z">>}

\* A buffer is loaded, the Edit dialog is closed, and some rows are selected.
InitEdit ==
    /\ data = <<1, 2>>
    /\ file_path = Some("a.bin")
    /\ fields \in {EditFields(n) : n \in 0..MaxFields}
    /\ selected_fields \in {{}, {0}}
    /\ last_selected_field \in {None, Some(0)}
    /\ add_field_window_open = FALSE
    /\ edit_field_window_open = FALSE
    /\ edit_field_idx = None
    /\ schema_file_path = None
    /\ schema_disk = SchemaFiles
    /\ lastAction = NoAction
    /\ RvIdle
    /\ HvIdle
    /\ FrIdle
    /\ EdIdle

\* The Edit button of a row opens the dialog on that row's field; a deleted
\* row takes the field under edit with it, or moves it up when it lay below.
NextEdit ==
    \/ \E idx \in Rows :
            Edit(idx) /\ ed_opened' = Some(idx) /\ UNCHANGED <<rvVars, hvVars, frVars>>
    \/ \E idx \in Rows :
            Delete(idx) /\ ed_opened' = DeleteRepairAnchor(ed_opened, idx)
            /\ UNCHANGED <<rvVars, hvVars, frVars>>
    \/ \E name \in NameInputs, offset_text \in EditOffsetInputs,
          type_idx \in TypeIdxInputs, comment \in CommentInputs :
            EditSave(name, offset_text, type_idx, comment)
            /\ UNCHANGED <<rvVars, hvVars, frVars, edVars>>

SpecEdit == InitEdit /\ [][NextEdit]_vars

\* ================================================================== claims
\* What the application holds as its selection.
Selection == [selected |-> selected_fields, anchor |-> last_selected_field]

\* The last handler was a click on a row with these modifier keys.
Clicked(ctrl, shift) ==
    /\ lastAction.op = "Select"
    /\ lastAction.ctrl = ctrl
    /\ lastAction.shift = shift

\* C1: after any sequence of user operations every index in selected_fields
\* is an index of the current fields list.
C1_SelectedIndicesValid == \A i \in selected_fields : i < Len(fields)

\* C2: after Clear All Fields the selection is empty and the anchor is unset.
C2_ClearEmptiesSelection ==
    lastAction.op = "ClearAllFields" =>
        selected_fields = {} /\ last_selected_field = None

\* C3: deleting row d maps the selection S to {i in S : i < d} united with
\* {i - 1 : i in S, i > d}; the anchor is cleared if it is d, decremented if
\* it is above d, and kept otherwise.
C3_DeleteRepair ==
    lastAction.op = "Delete" =>
        LET d == lastAction.idx
            S == lastAction.before.selected
            a == lastAction.before.anchor
        IN /\ selected_fields =
                {i \in S : i < d} \cup {i - 1 : i \in {j \in S : j > d}}
           /\ last_selected_field =
                IF a = Some(d) THEN None
                ELSE IF a # None /\ a[1] > d THEN Some(a[1] - 1)
                ELSE a

\* C3 witness: selected = {2,3,5}, anchor = 5, delete row 3 gives {2,4} and 4.
C3_Witness ==
    /\ lastAction.op = "Delete"
    /\ lastAction.idx = 3
    /\ lastAction.before = [selected |-> {2, 3, 5}, anchor |-> Some(5)]
    /\ selected_fields = {2, 4}
    /\ last_selected_field = Some(4)

\* C4: a deletion removes row d and repairs the selection in one step, after
\* which every surviving field keeps its place relative to the others and is
\* selected exactly if it was selected before.
C4_DeleteKeepsSelectedFields ==
    [][lastAction'.op = "Delete" =>
        LET d == lastAction'.idx
        IN /\ d < Len(fields)
           /\ Len(fields') = Len(fields) - 1
           /\ \A j \in 0..(Len(fields') - 1) :
                LET old == IF j < d THEN j ELSE j + 1
                IN /\ fields'[j + 1] = fields[old + 1]
                   /\ (j \in selected_fields') = (old \in selected_fields)]_vars

\* C4 witness: row 1 of at least four was deleted with rows on both sides of
\* it selected.
C4_Witness ==
    /\ lastAction.op = "Delete"
    /\ lastAction.idx = 1
    /\ lastAction.before.selected = {0, 1, 3}
    /\ selected_fields = {0, 2}
    /\ Len(fields) >= 3

\* C5 as claimed: with the anchor unset, a shift-click on a row leaves the
\* selection and anchor a plain click on that row would leave.
C5_ShiftIsPlainWithoutAnchor ==
    (Clicked(FALSE, TRUE) /\ lastAction.before.anchor = None) =>
        Selection = SelectPlain(lastAction.before.selected,
                                lastAction.before.anchor, lastAction.idx)

\* C5 amended: with the anchor unset, a shift-click on row i leaves exactly
\* {i} selected with the anchor on i, which is what a plain click leaves in
\* every state but the one where {i} was already the selection.
C5_ShiftWithoutAnchor ==
    (Clicked(FALSE, TRUE) /\ lastAction.before.anchor = None) =>
        /\ Selection = [selected |-> {lastAction.idx}, anchor |-> Some(lastAction.idx)]
        /\ lastAction.before.selected # {lastAction.idx} =>
                Selection = SelectPlain(lastAction.before.selected,
                                        lastAction.before.anchor, lastAction.idx)

\* C5 witness: a shift-click without an anchor on a row other than the two
\* selected ones.
C5_Witness ==
    /\ Clicked(FALSE, TRUE)
    /\ lastAction.before = [selected |-> {0, 2}, anchor |-> None]
    /\ lastAction.idx = 1
    /\ selected_fields = {1}

\* C6: a plain click on row i clears selection and anchor if {i} was the
\* selection, and otherwise leaves {i} selected with the anchor on i.
C6_PlainClick ==
    Clicked(FALSE, FALSE) =>
        IF lastAction.before.selected = {lastAction.idx}
        THEN selected_fields = {} /\ last_selected_field = None
        ELSE selected_fields = {lastAction.idx}
             /\ last_selected_field = Some(lastAction.idx)

\* C6 witness: a plain click on one row of a selection of three.
C6_Witness ==
    /\ Clicked(FALSE, FALSE)
    /\ lastAction.before.selected = {0, 1, 4}
    /\ lastAction.idx = 1
    /\ selected_fields = {1}
    /\ last_selected_field = Some(1)

\* C7: a ctrl-click on row i flips only i's membership and puts the anchor on
\* i either way, so a second ctrl-click on i restores the selected set and
\* leaves the anchor on i.
C7_CtrlClick ==
    (lastAction.op = "Select" /\ lastAction.ctrl) =>
        LET i == lastAction.idx
            S == lastAction.before.selected
        IN /\ selected_fields \ {i} = S \ {i}
           /\ (i \in selected_fields) = (i \notin S)
           /\ last_selected_field = Some(i)
           /\ SelectCtrl(selected_fields, last_selected_field, i)
                = [selected |-> S, anchor |-> Some(i)]

\* C7 witness: a ctrl-click took a row out of a selection whose anchor was
\* elsewhere.
C7_Witness ==
    /\ lastAction.op = "Select"
    /\ lastAction.ctrl
    /\ lastAction.before = [selected |-> {1, 3}, anchor |-> Some(1)]
    /\ lastAction.idx = 3
    /\ selected_fields = {1}
    /\ last_selected_field = Some(3)

\* C8: a shift-click on row i with the anchor on a adds the inclusive range
\* min(a,i)..max(a,i) to the selection, removes nothing, and moves the anchor
\* to i.
C8_ShiftRange ==
    (Clicked(FALSE, TRUE) /\ lastAction.before.anchor # None) =>
        LET i == lastAction.idx
            a == lastAction.before.anchor[1]
        IN /\ selected_fields = lastAction.before.selected \cup (Min(a, i)..Max(a, i))
           /\ last_selected_field = Some(i)

\* C8 witness: a shift-click above the anchor, with a row outside the range
\* already selected.
C8_Witness ==
    /\ Clicked(FALSE, TRUE)
    /\ lastAction.before = [selected |-> {0, 4}, anchor |-> Some(4)]
    /\ lastAction.idx = 2
    /\ selected_fields = {0, 2, 3, 4}
    /\ last_selected_field = Some(2)

\* The call under study lies within the buffer: offset + width <= length,
\* taken over the integers (an offset written as a negative number stands for
\* one just below 2^64).
RvInBounds == rv_offset >= 0 /\ rv_offset + Size(rv_type) <= Len(rv_data)

\* C9: read_value returns a value exactly when offset + width <= length and
\* None otherwise, and reads no byte outside [offset, offset + width) or
\* outside the buffer.
C9_BoundsChecked ==
    rv_result.kind # "NotCalled" =>
        /\ RvInBounds => rv_result.kind = "Some"
        /\ ~RvInBounds => rv_result.kind = "None"
        /\ rv_result.read \subseteq
              {k \in 0..(Len(rv_data) - 1) :
                  rv_offset >= 0 /\ rv_offset <= k /\ k < rv_offset + Size(rv_type)}

OtherEndianness(e) == IF e = "Little" THEN "Big" ELSE "Little"

\* The buffer with the bytes of [offset, offset + width) in reverse order.
ReversedWindow(buf, offset, width) ==
    [k \in 1..Len(buf) |->
        IF offset < k /\ k <= offset + width
        THEN buf[2 * offset + width + 1 - k]
        ELSE buf[k]]

IntegerTypes == {"U8", "U16", "U32", "U64", "I8", "I16", "I32", "I64"}

\* C10: an integer decoded in one byte order equals the same bytes reversed
\* decoded in the other byte order, and a one-byte integer decodes the same
\* in both orders.
C10_EndiannessReversal ==
    (rv_result.kind = "Some" /\ rv_type \in IntegerTypes) =>
        /\ \A oc \in BOOLEAN :
              read_value(rv_type,
                         ReversedWindow(rv_data, rv_offset, Size(rv_type)),
                         rv_offset, OtherEndianness(rv_endianness), oc)
                = rv_result
        /\ Size(rv_type) = 1 =>
              \A oc \in BOOLEAN :
                 read_value(rv_type, rv_data, rv_offset,
                            OtherEndianness(rv_endianness), oc) = rv_result

\* C10 witness: a four-byte signed integer read big-endian at offset 1 whose
\* value differs from the little-endian reading of the same bytes.
C10_Witness ==
    /\ rv_result.kind = "Some"
    /\ rv_type = "I32"
    /\ rv_endianness = "Big"
    /\ rv_offset = 1
    /\ rv_result.value = "-2130706432"
    /\ read_value(rv_type, rv_data, rv_offset, "Little", TRUE).value = "129"

\* The unsigned type of the same width.
UnsignedOf(t) ==
    CASE t = "I8" -> "U8" [] t = "I16" -> "U16"
      [] t = "I32" -> "U32" [] t = "I64" -> "U64"
      [] OTHER -> t

SignedTypes == {"I8", "I16", "I32", "I64"}

RECURSIVE NatToString(_)
\* The decimal text of a natural number.
NatToString(n) ==
    IF n < 10 THEN DecimalDigits[n + 1]
    ELSE NatToString(n \div 10) \o DecimalDigits[(n % 10) + 1]

\* The decimal text of an integer.
IntToString(n) == IF n < 0 THEN "-" \o NatToString(0 - n) ELSE NatToString(n)

RECURSIVE SubFromZero(_, _, _)
\* 256^Len(digits) - digits for digits # 0, by schoolbook subtraction from
\* the digit k down with a borrow.
SubFromZero(digits, k, borrow) ==
    IF k = 0 THEN digits
    ELSE LET d == 0 - digits[k] - borrow
         IN SubFromZero([digits EXCEPT ![k] = d % 256], k - 1,
                        IF d < 0 THEN 1 ELSE 0)

\* The value the bytes at the offset hold, most significant byte first.
RvWindow ==
    LET bytes == SubSeq(rv_data, rv_offset + 1, rv_offset + Size(rv_type))
    IN IF rv_endianness = "Little" THEN Reverse(bytes) ELSE bytes

\* The text of the two's-complement reading of an unsigned value of w bytes:
\* the value itself below 2^(8w-1), the value minus 2^(8w) from there on.
TwosComplementText(digits) ==
    IF digits[1] < 128 THEN UnsignedToString(digits)
    ELSE "-" \o UnsignedToString(SubFromZero(digits, Len(digits), 0))

\* C11: a byte b in bounds decodes as U8 to b and as I8 to b below 128 and
\* to b - 256 from 128 on; every signed integer type decodes to the
\* two's-complement reading of what the unsigned type of the same width
\* decodes from the same bytes in the same byte order.
C11_TwosComplement ==
    rv_result.kind = "Some" =>
        /\ rv_type = "U8" =>
              rv_result.value = IntToString(rv_data[rv_offset + 1])
        /\ rv_type = "I8" =>
              LET b == rv_data[rv_offset + 1]
              IN rv_result.value = IntToString(IF b < 128 THEN b ELSE b - 256)
        /\ rv_type = "U16" =>
              rv_result.value = IntToString(256 * RvWindow[1] + RvWindow[2])
        /\ rv_type = "I16" =>
              LET u == 256 * RvWindow[1] + RvWindow[2]
              IN rv_result.value = IntToString(IF u < 32768 THEN u ELSE u - 65536)
        /\ rv_type \in SignedTypes =>
              LET u == read_value(UnsignedOf(rv_type), rv_data, rv_offset,
                                  rv_endianness, TRUE)
              IN /\ u.kind = "Some"
                 /\ RvWindow[1] < 128 => rv_result.value = u.value
                 /\ rv_result.value = TwosComplementText(RvWindow)

\* C11 witness: the eight bytes 00 .. 00 80 read little-endian as I64 give
\* the least value of the type.
C11_Witness ==
    /\ rv_result.kind = "Some"
    /\ rv_type = "I64"
    /\ rv_endianness = "Little"
    /\ rv_data = <<0, 0, 0, 0, 0, 0, 0, 128>>
    /\ rv_result.value = "-9223372036854775808"
    /\ read_value("U64", rv_data, rv_offset, rv_endianness, TRUE).value
         = "9223372036854775808"

\* The field a byte offset belongs to, stated over the integers: the least
\* index whose field has offset <= o < offset + width, if there is one (an
\* offset written as a negative number lies above every byte of a buffer).
OwnerOf(fs, o) ==
    LET covering == {k \in 1..Len(fs) :
                        /\ fs[k].offset >= 0
                        /\ fs[k].offset <= o
                        /\ o < fs[k].offset + Size(fs[k].data_type)}
    IN IF covering = {} THEN None
       ELSE Some((CHOOSE k \in covering : \A j \in covering : k <= j) - 1)

\* The owner of byte b of the row under study.
RowOwner(b) == OwnerOf(hv_fields, hv_row_idx * bytes_per_row + b)

\* C12: when a row is finished, the spans drawn lie within the row, come in
\* increasing byte order without overlap, each is a maximal run of bytes
\* with one and the same owner, which is its label, and every owned byte of
\* the row lies in a span.
C12_GroupingRuns ==
    hv_pc = "done" =>
        /\ \A i \in 1..Len(hv_spans) :
              LET sp == hv_spans[i]
              IN /\ 0 <= sp.start_byte
                 /\ sp.start_byte <= sp.end_byte
                 /\ sp.end_byte < hv_chunk_len
                 /\ \A b \in sp.start_byte..sp.end_byte :
                        RowOwner(b) = Some(sp.field_idx)
                 /\ sp.start_byte > 0 =>
                        RowOwner(sp.start_byte - 1) # Some(sp.field_idx)
                 /\ sp.end_byte < hv_chunk_len - 1 =>
                        RowOwner(sp.end_byte + 1) # Some(sp.field_idx)
                 /\ i < Len(hv_spans) => sp.end_byte < hv_spans[i + 1].start_byte
        /\ \A b \in 0..(hv_chunk_len - 1) :
              RowOwner(b) # None =>
                 \E i \in 1..Len(hv_spans) :
                    hv_spans[i].start_byte <= b /\ b <= hv_spans[i].end_byte

\* C12 witness: A at 0 of width 4 and B at 4 of width 2 in a full first row
\* give exactly (A,0,3) and (B,4,5).
C12_Witness ==
    /\ hv_pc = "done"
    /\ hv_fields = <<FieldNew("f", 0, "U32"), FieldNew("f", 4, "U16")>>
    /\ hv_row_idx = 0
    /\ hv_chunk_len = bytes_per_row
    /\ hv_spans = <<Draw(0, 0, 3), Draw(1, 4, 5)>>

\* C13: the field resolved for a byte is the least index whose field covers
\* the byte and none exactly when no field covers it, the resolution never
\* aborts, and every span drawn is labelled with the least index covering
\* each of its bytes.
C13_FirstMatchWins ==
    /\ hv_pc # "panic"
    /\ (hv_pc \in {"loop", "done"} /\ hv_byte_idx > 0) =>
            hv_found = RowOwner(hv_byte_idx - 1)
    /\ \A i \in 1..Len(hv_spans) :
          \A b \in hv_spans[i].start_byte..hv_spans[i].end_byte :
             Some(hv_spans[i].field_idx) = RowOwner(b)

\* C13 witness: byte 4 is covered by the second and the third field but not
\* the first, and resolves to the second.
C13_Witness ==
    /\ hv_fields = <<FieldNew("f", 0, "U32"), FieldNew("f", 2, "U64"),
                     FieldNew("f", 4, "U16")>>
    /\ hv_row_idx = 0
    /\ hv_byte_idx = 5
    /\ hv_found = Some(1)

DecimalChars == {DecimalDigits[k] : k \in 1..10}

HexChars == {HexDigits[k] : k \in 1..16} \cup {LowerHexDigits[k] : k \in 1..16}

\* A non-empty run of characters of the set.
DigitsOf(s, chars) == Len(s) > 0 /\ \A k \in 1..Len(s) : s[k] \in chars

HasHexPrefix(text) == Len(text) >= 2 /\ text[1] = "0" /\ text[2] = "x"

\* The text is 0x followed by hexadecimal digits, or decimal digits.
PlainUnsignedText(text) ==
    IF HasHexPrefix(text) THEN DigitsOf(SubSeq(text, 3, Len(text)), HexChars)
    ELSE DigitsOf(text, DecimalChars)

\* The text without one "+" in front of its digits.
Unsign(s) == IF Len(s) > 0 /\ s[1] = "+" THEN Tail(s) ELSE s

\* As PlainUnsignedText, with one "+" allowed in front of the digits.
SignedUnsignedText(text) ==
    IF HasHexPrefix(text)
    THEN DigitsOf(Unsign(SubSeq(text, 3, Len(text))), HexChars)
    ELSE DigitsOf(Unsign(text), DecimalChars)

\* The step was the Add or the Save button.
Submitted == lastAction'.op \in {"AddFieldSubmit", "EditSave"}

\* The step left the field list, the selection and the anchor alone and
\* reported a rejection.
Rejected ==
    /\ ~lastAction'.ok
    /\ fields' = fields
    /\ selected_fields' = selected_fields
    /\ last_selected_field' = last_selected_field

\* C14 as claimed: Add or Save with an empty name, or with offset text that
\* is neither 0x and hexadecimal digits nor decimal digits, is rejected and
\* leaves fields, selection and anchor as they were.
C14_InvalidFormRejected ==
    [][(Submitted /\ (lastAction'.name = ""
                      \/ ~PlainUnsignedText(lastAction'.offset_text)))
        => Rejected]_vars

\* C14 amended: the same, where the digits of either form may be preceded by
\* one "+".
C14_InvalidFormRejectedUpToSign ==
    [][(Submitted /\ (lastAction'.name = ""
                      \/ ~SignedUnsignedText(lastAction'.offset_text)))
        => Rejected]_vars

\* C14 witness: Save with a name and the offset text -1 was rejected with
\* two fields present, both selected.
C14_Witness ==
    /\ lastAction.op = "EditSave"
    /\ lastAction.name = "a"
    /\ lastAction.offset_text = <<"-", "1">>
    /\ ~lastAction.ok
    /\ fields = SelFields(2)
    /\ edit_field_idx = Some(0)
    /\ selected_fields = {0, 1}
    /\ last_selected_field = Some(1)

\* C15: Save with a stored edit index that is no index of the fields list
\* does not report success.
C15_StaleReplaceFails ==
    (/\ lastAction.op = "EditSave"
     /\ edit_field_idx # None
     /\ edit_field_idx[1] >= Len(fields))
        => ~lastAction.ok

\* C16: a schema load whose file cannot be read or does not parse leaves the
\* fields and the remembered schema path as they were, and a binary load
\* whose open or read fails leaves the buffer and its path as they were.
C16_FailedLoadKeepsState ==
    [][/\ (/\ lastAction'.op = "LoadSchema"
           /\ \/ ~schema_disk[lastAction'.name].readable
              \/ ~from_str(schema_disk[lastAction'.name].doc).ok)
          => /\ ~lastAction'.ok
             /\ fields' = fields
             /\ schema_file_path' = schema_file_path
       /\ (lastAction'.op = "OpenFile" /\ ~lastAction'.ok)
          => /\ data' = data
             /\ file_path' = file_path]_vars

\* C16 witness: a document with a good table and a bad one was loaded with
\* two fields present and a path remembered, and was refused.
C16_Witness ==
    /\ lastAction.op = "LoadSchema"
    /\ ~lastAction.ok
    /\ schema_disk[SchemaPath].readable
    /\ Len(schema_disk[SchemaPath].doc) = 2
    /\ Len(fields) = 2
    /\ schema_file_path = Some(SchemaPath)

\* C17: every schema can be saved, and a load of the saved document right
\* after the save succeeds and yields the same fields in the same order
\* with every attribute equal.
C17_RoundTrip ==
    [][/\ lastAction'.op = "SaveSchema" => lastAction'.ok
       /\ (/\ lastAction.op = "SaveSchema"
           /\ lastAction.ok
           /\ lastAction'.op = "LoadSchema"
           /\ lastAction'.name = lastAction.name)
          => (lastAction'.ok /\ fields' = fields)]_vars

\* The table with an empty comment added if it has none.
WithDefaultComment(table) ==
    IF Lookup(table, "comment") = {}
    THEN Append(table, Entry("comment", "string", ""))
    ELSE table

\* C18: a readable document all of whose tables parse once a missing comment
\* is taken as empty loads, those being its fields; any other document is
\* refused and none of its fields is taken.
C18_MissingCommentDefaults ==
    [][(lastAction'.op = "LoadSchema" /\ schema_disk[lastAction'.name].readable)
        => LET doc == schema_disk[lastAction'.name].doc
               want == [k \in 1..Len(doc) |-> de_field(WithDefaultComment(doc[k]))]
           IN IF \A k \in 1..Len(doc) : want[k].ok
              THEN /\ lastAction'.ok
                   /\ fields' = [k \in 1..Len(doc) |-> want[k].field]
              ELSE /\ ~lastAction'.ok
                   /\ fields' = fields]_vars

\* C19: for every offset of the machine word, those within 8 of its maximum
\* included, read_value returns instead of aborting, and for an offset past
\* every buffer it returns the bounds failure.
C19_NoOverflowNearMax ==
    rv_result.kind # "NotCalled" =>
        /\ rv_result.kind \in {"Some", "None"}
        /\ rv_offset < 0 => rv_result.kind = "None"

\* C20: a Delete intent the application handles carries an index below the
\* number of fields at the moment fields.remove runs, whatever ran earlier in
\* the frame or in frames before it, so the removal never panics.
C20_DeleteIndexInRange ==
    /\ fr_pc # "panicked"
    /\ (fr_pc = "handle" /\ fr_action # None /\ fr_action[1].op = "Delete")
            => fr_action[1].idx < Len(fields)

\* A removal has run in a frame whose menu cleared the list and whose Add
\* dialog then added a field.
C20_Witness ==
    /\ fr_pc = "shortcuts"
    /\ lastAction.op = "Delete"
    /\ fr_earlier = {"ClearAllFields", "AddFieldSubmit"}

\* The glyphs of a label that lie under an extent of the given start and
\* width.
Under(label, start_x, width) ==
    SubSeq(label, start_x \div char_width + 1, (start_x + width) \div char_width)

\* C21: for every span drawn, before padding and in glyph widths, the hex
\* extent starts at 3*first and is 3*n - 1 wide, n the number of bytes, which
\* are exactly the digits of its bytes with the separators between them; the
\* ASCII extent starts at first and is n wide, exactly the glyphs of its
\* bytes.
C21_SpanGeometry ==
    \A i \in 1..Len(hv_spans) :
        LET sp == hv_spans[i]
            first == sp.start_byte
            last == sp.end_byte
            n == last - first + 1
            g == sp.painted
        IN /\ g.hex_start_x = 3 * first * char_width
           /\ g.hex_width = (3 * n - 1) * char_width
           /\ g.ascii_start_x = first * char_width
           /\ g.ascii_width = n * char_width
           /\ Under(hex_string(hv_chunk_len), g.hex_start_x, g.hex_width)
                = JoinHex(first, last)
           /\ Under(ascii_string(hv_chunk_len), g.ascii_start_x, g.ascii_width)
                = [k \in 1..n |-> first + k - 1]

\* C21 witness: a short final row of five bytes with a span of four bytes
\* that stops before the row's last byte and a span of one byte that is the
\* row's last.
C21_Witness ==
    /\ hv_pc = "done"
    /\ hv_chunk_len = 5
    /\ Len(hv_spans) = 2
    /\ hv_spans[1].start_byte = 0 /\ hv_spans[1].end_byte = 3
    /\ hv_spans[2].start_byte = 4 /\ hv_spans[2].end_byte = 4

\* C22: of two spans of a row where the second starts on the byte right
\* after the first ends, the padded right edge of the first is the padded
\* left edge of the second, in the hex column and in the ASCII column.
C22_AdjacentSpansMeet ==
    \A i \in 1..(Len(hv_spans) - 1) :
        hv_spans[i + 1].start_byte = hv_spans[i].end_byte + 1 =>
            /\ hv_spans[i].painted.hex_highlight_rect.max
                 = hv_spans[i + 1].painted.hex_highlight_rect.min
            /\ hv_spans[i].painted.ascii_highlight_rect.max
                 = hv_spans[i + 1].painted.ascii_highlight_rect.min

\* The Save button of the Edit dialog has just reported success.
Saved == lastAction'.op = "EditSave" /\ lastAction'.ok

\* C23: a successful Save of the Edit dialog, whatever rows were deleted
\* since the dialog was opened, writes the form into the field the dialog was
\* opened on if it is still in the list, and changes no other field.
C23_SaveHitsOpenedField ==
    [][Saved =>
          /\ Len(fields') = Len(fields)
          /\ \A k \in 1..Len(fields) :
                fields'[k] # fields[k] => ed_opened = Some(k - 1)
          /\ ed_opened # None =>
                fields'[ed_opened[1] + 1].name = lastAction'.name]_vars

\* C24: a successful Save of the Edit dialog leaves the endianness of the
\* field it writes, every other field, the number and order of the fields,
\* the selected set and the anchor as they were.
C24_SaveKeepsTheRest ==
    [][Saved =>
          /\ Len(fields') = Len(fields)
          /\ \A k \in 1..Len(fields) :
                IF edit_field_idx = Some(k - 1)
                THEN fields'[k].endianness = fields[k].endianness
                ELSE fields'[k] = fields[k]
          /\ selected_fields' = selected_fields
          /\ last_selected_field' = last_selected_field]_vars

\* C25: the anchor, when set, is an index of the current field list, and the
\* rows a shift-click has added to the selection are indices of the list.
C25_AnchorValid ==
    /\ last_selected_field # None => last_selected_field[1] < Len(fields)
    /\ (lastAction.op = "Select" /\ lastAction.shift /\ ~lastAction.ctrl) =>
            \A i \in selected_fields \ lastAction.before.selected : i < Len(fields)

\* C26: whenever the buffer has a file path it reports as loaded, a file of
\* zero bytes included, and after clear it is not loaded and has no path.
C26_LoadedIffPath ==
    /\ file_path # None => is_loaded
    /\ lastAction.op = "Clear" => (~is_loaded /\ file_path = None)
====
